---- MODULE Spec2Model ----
(***************************************************************************)
(* Farcaster ID mini app: App (state, loadNeynarData, init, handleShare,   *)
(* handleRefreshData, handleDownloadCard), the image helpers                *)
(* generatePngBlob and uploadToCloudinary, and the Dashboard props that    *)
(* wire the handlers to buttons.                                           *)
(*                                                                         *)
(* React state is modelled as the committed value (user, recentCasts,      *)
(* sharing, loading, error) plus the values captured by the closures of    *)
(* the last render (rendered).  A handler reads the captured values, a     *)
(* functional updater reads the committed ones.  Every call into the       *)
(* browser, the network or a library either returns one of its possible    *)
(* values or throws; each await is a step boundary.                        *)
(***************************************************************************)
EXTENDS Integers, Sequences, FiniteSets, TLC

\* ------------------------------------------------------------------ bounds
MaxLoads == 3       \* loadNeynarData invocations (init's one + refreshes)
MaxShares == 2      \* handleShare invocations
MaxDownloads == 1   \* handleDownloadCard invocations
MaxPresses == 7     \* presses of the background button
MaxClicks == 4      \* clicks on the stat cards and the id card
MaxAddressLen == 11 \* characters of an address handed to formatAddress

\* ------------------------------------------------------------ value model
\* null / undefined of a number-valued field
Null == -1
\* null / undefined of a string-valued field
Undef == "<undefined>"
\* an optional object is a sequence of length 0 (absent) or 1 (present)
None == <<>>
Some(x) == <<x>>

MINIAPP_URL == "https://farcaster-id-one.vercel.app"
ImageUrl == "https://res.cloudinary.com/card.png"

PngMethods == {"html2canvas", "html-to-image", "dom-to-image"}
\* PNG_METHOD is a string cast to PngMethod: any string can stand there
PngMethodValues == PngMethods \cup {"canvas2image"}

\* ------------------------------------------------- JavaScript operators
\* a ?? b on number-valued operands
Nullish(a, b) == IF a # Null THEN a ELSE b
\* a ?? b on string-valued operands
NullishStr(a, b) == IF a # Undef THEN a ELSE b
\* truthiness of a string / of a number
TruthyStr(s) == s # Undef /\ s # ""
\* a || b on strings
OrStr(a, b) == IF TruthyStr(a) THEN a ELSE b
\* a || 0 on numbers
OrZero(a) == IF a # Null /\ a # 0 THEN a ELSE 0

\* ------------------------------------------------------- formatAddress
\* A string is a sequence of one-character strings here, so that it can be
\* sliced.  The optional argument is a record: present is FALSE for a call
\* without address (undefined).
Chars(s) == [present |-> TRUE, chars |-> s]

Missing == [present |-> FALSE, chars |-> <<>>]

NotConnected ==
  <<"N", "o", "t", " ", "c", "o", "n", "n", "e", "c", "t", "e", "d">>

Ellipsis == <<".", ".", ".">>

\* String.prototype.slice(start, end): a negative index counts from the end,
\* both are clamped to the string
Slice(s, start, end) ==
  LET n == Len(s)
      from == IF start < 0 THEN (IF n + start < 0 THEN 0 ELSE n + start)
              ELSE (IF start > n THEN n ELSE start)
      to == IF end < 0 THEN (IF n + end < 0 THEN 0 ELSE n + end)
            ELSE (IF end > n THEN n ELSE end)
  IN  SubSeq(s, from + 1, to)

\* slice(4) in place of slice(-4): everything after the fourth character
formatAddress_SliceFromFour(address) ==
  IF ~address.present \/ address.chars = <<>> THEN NotConnected
  ELSE Slice(address.chars, 0, 6) \o Ellipsis
         \o Slice(address.chars, 4, Len(address.chars))

formatAddress(address) ==
  IF ~address.present \/ address.chars = <<>> THEN NotConnected
  ELSE Slice(address.chars, 0, 6) \o Ellipsis
         \o Slice(address.chars, -4, Len(address.chars))

\* ------------------------------------------- casts response normalisation
\* A cast object of the casts response.  reactions is an optional object.
CountValues == {Null, 0, 2}
Reactions == [likes_count : CountValues, likes : CountValues,
              recasts_count : CountValues, recasts : CountValues]
RawCast == [hash : {"0xa"}, text : {Undef, "gm"}, timestamp : {"t1"},
            reactions : {None} \cup {Some(r) : r \in Reactions},
            like_count : CountValues, likes : CountValues,
            recast_count : CountValues, recasts : CountValues]

\* c.reactions?.f
ReactionsField(c, f) == IF c.reactions = None THEN Null ELSE c.reactions[1][f]

\* the mutant of CastLikes: || where the code has ??
CastLikes_FalsyOr(c) ==
  LET a == ReactionsField(c, "likes_count")
      b == ReactionsField(c, "likes")
  IN  IF a # Null /\ a # 0 THEN a
      ELSE IF b # Null /\ b # 0 THEN b
      ELSE IF c.like_count # Null /\ c.like_count # 0 THEN c.like_count
      ELSE IF c.likes # Null /\ c.likes # 0 THEN c.likes
      ELSE 0

CastLikes(c) ==
  Nullish(ReactionsField(c, "likes_count"),
    Nullish(ReactionsField(c, "likes"),
      Nullish(c.like_count, Nullish(c.likes, 0))))

CastRecasts(c) ==
  Nullish(ReactionsField(c, "recasts_count"),
    Nullish(ReactionsField(c, "recasts"),
      Nullish(c.recast_count, Nullish(c.recasts, 0))))

\* the callback of castsData.result?.casts?.map
MapCast(c) ==
  [hash |-> c.hash, text |-> NullishStr(c.text, ""), timestamp |-> c.timestamp,
   likes |-> CastLikes(c), recasts |-> CastRecasts(c)]

MapCasts(cs) == [i \in 1..Len(cs) |-> MapCast(cs[i])]

\* casts.reduce((sum, cast) => sum + (cast.likes || 0) + (cast.recasts || 0), 0)
RECURSIVE TotalReactions(_)
TotalReactions(casts) ==
  IF casts = <<>> THEN 0
  ELSE OrZero(Head(casts).likes) + OrZero(Head(casts).recasts)
       + TotalReactions(Tail(casts))

\* the casts of a response body: castsData.result?.casts?.map(...) ?? []
ResponseCasts(body) ==
  IF body.casts = None THEN <<>> ELSE MapCasts(body.casts[1])

\* the updater of setUser after the casts response (prev is the optional user)
\* the previous castsCount preferred to result.total
UpdateCounts_PrevFirst(prev, body) ==
  IF prev = None THEN prev
  ELSE LET casts == ResponseCasts(body)
       IN  Some([prev[1] EXCEPT
                   !.castsCount = Nullish(prev[1].castsCount,
                                    Nullish(body.total, Len(casts))),
                   !.reactionsCount = TotalReactions(casts)])

UpdateCounts(prev, body) ==
  IF prev = None THEN prev
  ELSE LET casts == ResponseCasts(body)
       IN  Some([prev[1] EXCEPT
                   !.castsCount = Nullish(body.total,
                                    Nullish(prev[1].castsCount, Len(casts))),
                   !.reactionsCount = TotalReactions(casts)])

\* ------------------------------------------------ profile normalisation
\* The user object of the mock context that init builds baseUser from.
Fid == 12345
baseUser ==
  [fid |-> Fid, username |-> "testuser", displayName |-> "Test User",
   avatarUrl |-> "https://example.com/avatar.png",
   followersCount |-> Null, followingCount |-> Null, bio |-> Undef,
   location |-> Undef, primaryAddress |-> Undef, neynarScore |-> Null,
   castsCount |-> Null, reactionsCount |-> Null]

\* `${city}, ${country}`
CityCountry(city, country) == city \o ", " \o country

\* a user whose optional profile fields were all filled by an earlier load
fullUser ==
  [baseUser EXCEPT !.followersCount = 10, !.followingCount = 20,
                   !.bio = "old bio", !.location = "Paris, France",
                   !.primaryAddress = "0xold", !.neynarScore = 50,
                   !.castsCount = 3, !.reactionsCount = 9]

\* bio assigned from the response without `?? base.bio`
MergeProfile_OverwriteBio(prev, u, fid) ==
  LET base == IF prev # None THEN prev[1]
              ELSE [fid |-> fid,
                    username |-> NullishStr(u.username, "user-fid"),
                    displayName |-> NullishStr(u.display_name,
                                      NullishStr(u.username, "FID fid")),
                    avatarUrl |-> Undef, followersCount |-> Null,
                    followingCount |-> Null, bio |-> Undef, location |-> Undef,
                    primaryAddress |-> Undef, neynarScore |-> Null,
                    castsCount |-> Null, reactionsCount |-> Null]
      location == IF TruthyStr(u.city) /\ TruthyStr(u.country)
                  THEN CityCountry(u.city, u.country)
                  ELSE OrStr(u.country, Undef)
      primaryEth == OrStr(u.primary_eth, OrStr(u.eth0, u.custody_address))
  IN  Some([base EXCEPT
              !.avatarUrl = NullishStr(u.pfp_url, base.avatarUrl),
              !.followersCount = Nullish(u.follower_count, base.followersCount),
              !.followingCount = Nullish(u.following_count, base.followingCount),
              !.bio = u.bio,
              !.location = NullishStr(location, base.location),
              !.primaryAddress = NullishStr(primaryEth, base.primaryAddress),
              !.neynarScore = IF u.score # Null THEN u.score
                              ELSE base.neynarScore])

\* the updater of setUser after the profile response; u is data.users[0]
MergeProfile(prev, u, fid) ==
  LET base == IF prev # None THEN prev[1]
              ELSE [fid |-> fid,
                    username |-> NullishStr(u.username, "user-fid"),
                    displayName |-> NullishStr(u.display_name,
                                      NullishStr(u.username, "FID fid")),
                    avatarUrl |-> Undef, followersCount |-> Null,
                    followingCount |-> Null, bio |-> Undef, location |-> Undef,
                    primaryAddress |-> Undef, neynarScore |-> Null,
                    castsCount |-> Null, reactionsCount |-> Null]
      location == IF TruthyStr(u.city) /\ TruthyStr(u.country)
                  THEN CityCountry(u.city, u.country)
                  ELSE OrStr(u.country, Undef)
      primaryEth == OrStr(u.primary_eth, OrStr(u.eth0, u.custody_address))
  IN  Some([base EXCEPT
              !.avatarUrl = NullishStr(u.pfp_url, base.avatarUrl),
              !.followersCount = Nullish(u.follower_count, base.followersCount),
              !.followingCount = Nullish(u.following_count, base.followingCount),
              !.bio = NullishStr(u.bio, base.bio),
              !.location = NullishStr(location, base.location),
              !.primaryAddress = NullishStr(primaryEth, base.primaryAddress),
              !.neynarScore = IF u.score # Null THEN u.score
                              ELSE base.neynarScore])

\* ---------------------------------------------------------- image helpers
\* JavaScript null where a string or a Blob is expected
NullVal == "<null>"
Resolved(v) == [kind |-> "resolved", value |-> v]
Rejected == [kind |-> "rejected", value |-> NullVal]

\* What the environment answers to one generatePngBlob call: lib is the
\* outcome of the rasterization library's promise, toBlob the outcome of
\* canvas.toBlob (a Blob, null, or a synchronous throw such as the
\* SecurityError of a tainted canvas).
PngEnv ==
  [lib : {"resolve", "null", "reject"}, toBlob : {"blob", "null", "throw"}]

\* the answers that can occur under a PNG_METHOD value: html2canvas resolves
\* with a canvas (never null), and only its canvas has toBlob called
PngEnvOf(method) ==
  IF method \in {"html-to-image", "dom-to-image"}
  THEN {e \in PngEnv : e.toBlob = "blob"}
  ELSE {e \in PngEnv : e.lib # "null"}

\* the library a PNG_METHOD value selects
SelectedLibrary(method) ==
  IF method \in {"html-to-image", "dom-to-image"} THEN method ELSE "html2canvas"

\* the mutants of generatePngBlob: the default branch rasterizes with
\* html-to-image; every promise is awaited inside the try block
generatePngBlob_DefaultHtmlToImage(method, e) ==
  LET lib == IF method \in PngMethods THEN method ELSE "html-to-image"
  IN  [libs |-> <<lib>>, warned |-> method \notin PngMethods,
       logged |-> e.lib = "reject",
       result |-> IF e.lib = "reject" THEN Resolved(NullVal)
                  ELSE IF lib = "html2canvas"
                       THEN (IF e.toBlob = "throw" THEN Rejected
                             ELSE IF e.toBlob = "null" THEN Resolved(NullVal)
                             ELSE Resolved("blob"))
                       ELSE (IF e.lib = "null" THEN Resolved(NullVal)
                             ELSE Resolved("blob"))]

\* generatePngBlob(element) under the environment's answers e:
\* libs is the list of rasterization libraries called, warned / logged say
\* whether console.warn / console.error ran, result is how the returned
\* promise settles.
generatePngBlob(method, e) ==
  LET lib == SelectedLibrary(method)
  IN  [libs |-> <<lib>>,
       warned |-> method \notin PngMethods,
       logged |-> e.lib = "reject",
       result |->
         IF e.lib = "reject" THEN Resolved(NullVal)           \* catch
         ELSE IF lib = "html2canvas"
              \* return new Promise(resolve => canvas.toBlob(resolve, ...)):
              \* the promise is returned, not awaited, so a throw inside the
              \* executor settles the returned promise outside the try
              THEN (IF e.toBlob = "throw" THEN Rejected
                    ELSE IF e.toBlob = "null" THEN Resolved(NullVal)
                    ELSE Resolved("blob"))
              \* return await lib.toBlob(element, ...)
              ELSE (IF e.lib = "null" THEN Resolved(NullVal)
                    ELSE Resolved("blob"))]

\* What the environment answers to one uploadToCloudinary call.
UploadEnv ==
  [card : BOOLEAN, png : PngEnv, reader : {"load", "error"},
   fetch : {"ok", "notok", "throw"}, body : {"url", "nourl", "throw"}]

UploadEnvOf(method) == {e \in UploadEnv : e.png \in PngEnvOf(method)}

\* What one uploadToCloudinary call did: png is how its generatePngBlob call
\* settled (None: not called), posts counts the upload POST requests sent,
\* result is how the returned promise settles.
NoPost(png) == [png |-> png, posts |-> 0, result |-> Resolved(NullVal)]
Posted(png, v) == [png |-> png, posts |-> 1, result |-> Resolved(v)]

\* the mutant of uploadToCloudinary: the `if (!blob) return null` is missing,
\* so a null blob is read and posted like any other
uploadToCloudinary_NoBlobCheck(name, preset, method, e) ==
  IF ~name \/ ~preset THEN NoPost(None)
  ELSE IF ~e.card THEN NoPost(None)
  ELSE LET blob == generatePngBlob(method, e.png).result
       IN  IF blob.kind = "rejected" THEN NoPost(Some(blob))
           ELSE IF e.reader = "error" THEN NoPost(Some(blob))
           ELSE IF e.fetch = "throw" \/ e.body = "throw"
                THEN Posted(Some(blob), NullVal)
           ELSE IF e.fetch = "ok"
                THEN Posted(Some(blob),
                            IF e.body = "url" THEN ImageUrl ELSE Undef)
                ELSE Posted(Some(blob), NullVal)

\* uploadToCloudinary(element): name / preset say whether the Cloudinary
\* cloud name / upload preset are set.
uploadToCloudinary(name, preset, method, e) ==
  IF ~name \/ ~preset THEN NoPost(None)
  ELSE IF ~e.card THEN NoPost(None)                    \* no .fc-idcard element
  ELSE LET blob == generatePngBlob(method, e.png).result
       IN  IF blob.kind = "rejected" THEN NoPost(Some(blob))       \* catch
           ELSE IF blob.value = NullVal THEN NoPost(Some(blob))    \* !blob
           ELSE IF e.reader = "error" THEN NoPost(Some(blob))      \* catch
           \* fetch(upload URL, {method: 'POST'}) is called
           ELSE IF e.fetch = "throw" THEN Posted(Some(blob), NullVal)
           \* uploadResponse.json() / .text() throws
           ELSE IF e.body = "throw" THEN Posted(Some(blob), NullVal)
           ELSE IF e.fetch = "ok"
                \* return uploadData.secure_url
                THEN Posted(Some(blob),
                            IF e.body = "url" THEN ImageUrl ELSE Undef)
                ELSE Posted(Some(blob), NullVal)

\* ------------------------------------------------------------------ state
VARIABLES
  NEYNAR_API_KEY,            \* whether VITE_NEYNAR_API_KEY is set
  CLOUDINARY_CLOUD_NAME,     \* whether VITE_CLOUDINARY_CLOUD_NAME is set
  CLOUDINARY_UPLOAD_PRESET,  \* whether VITE_CLOUDINARY_UPLOAD_PRESET is set
  PNG_METHOD,                \* the rasterization method
  user,                      \* useState<DashboardUser | null>
  recentCasts,               \* useState<RecentCast[] | undefined>
  error,                     \* useState<string | null>
  loading,                   \* useState(true)
  sharing,                   \* useState(false)
  rendered,                  \* what the closures of the last render captured
  cardRef,                   \* whether cardRef.current is set
  initPc,                    \* where init is
  loads,                     \* the loadNeynarData invocations
  shares,                    \* the handleShare invocations
  downloads,                 \* the handleDownloadCard invocations
  pngCall,                   \* the last direct generatePngBlob call
  uploadCall,                \* the last direct uploadToCloudinary call
  rawCast,                   \* a cast object handed to the map callback
  mappedCast,                \* what the callback returned for it
  mergeCall,                 \* one profile merge: previous user, response, result
  addressCall,               \* one formatAddress call: argument and result
  cardBackground,            \* Dashboard: useState<string>(first option)
  presses,                   \* presses of the background button so far
  clickedStat,               \* Dashboard: useState<string | null>(null)
  isCardClicked,             \* Dashboard: useState(false)
  floatingElements,          \* Dashboard: the ids of the floating elements
  timers,                    \* pending setTimeout callbacks, in creation order
  clicks,                    \* stat-card and id-card clicks so far
  lastId,                    \* Date.now() of the last stat click (0: none)
  highlightBy,               \* the click that last called setClickedStat(name)
  lastFired                  \* the timer whose callback ran last

config == <<NEYNAR_API_KEY, CLOUDINARY_CLOUD_NAME, CLOUDINARY_UPLOAD_PRESET,
            PNG_METHOD>>
reactState == <<user, recentCasts, error, loading, sharing>>
helperCalls == <<pngCall, uploadCall, rawCast, mappedCast, mergeCall,
                 addressCall>>
clickState == <<clickedStat, isCardClicked, floatingElements, timers, clicks,
                lastId, highlightBy, lastFired>>
dashboardState == <<cardBackground, presses, clickState>>
vars == <<config, reactState, rendered, cardRef, initPc, loads, shares,
          downloads, helperCalls, dashboardState>>

\* ---------------------------------------------------------- API answers
\* data.users?.[0] of the profile response (None: no such user)
ProfileUsers ==
  { [username |-> "alice", display_name |-> "Alice", pfp_url |-> "pfp.png",
     follower_count |-> 120, following_count |-> 0, bio |-> "hello",
     city |-> "Oslo", country |-> "Norway", primary_eth |-> Undef,
     eth0 |-> "0xabcdef0123456789", custody_address |-> "0xcustody",
     score |-> 87],
    [username |-> Undef, display_name |-> Undef, pfp_url |-> Undef,
     follower_count |-> Null, following_count |-> Null, bio |-> Undef,
     city |-> Undef, country |-> "", primary_eth |-> "",
     eth0 |-> Undef, custody_address |-> Undef, score |-> Null] }

plainCast ==
  [hash |-> "0xa", text |-> "gm", timestamp |-> "t1",
   reactions |-> Some([likes_count |-> 2, likes |-> Null,
                       recasts_count |-> 0, recasts |-> Null]),
   like_count |-> Null, likes |-> Null, recast_count |-> Null,
   recasts |-> Null]
legacyCast ==
  [hash |-> "0xa", text |-> Undef, timestamp |-> "t1", reactions |-> None,
   like_count |-> 0, likes |-> 2, recast_count |-> Null, recasts |-> 2]

\* the bodies of an ok casts response: result.casts and result.total
CastsBodies ==
  { [casts |-> None, total |-> Null],
    [casts |-> Some(<<>>), total |-> 7],
    [casts |-> Some(<<plainCast, legacyCast>>), total |-> Null] }

\* ------------------------------------------------------------ invocations
LoadIds == 1..MaxLoads
ShareIds == 1..MaxShares
DownloadIds == 1..MaxDownloads

\* One loadNeynarData invocation: pc is the await it is suspended at,
\* profileReqs / castsReqs count the requests it sent, profile / casts are
\* the answers it got, handled says that the if/else on userRes.ok ran to its
\* end, castsSet is what it last passed to setRecentCasts, total is the
\* result.total of the casts body it parsed.
idleLoad ==
  [pc |-> "idle", fid |-> Fid, showLoading |-> FALSE, profileReqs |-> 0,
   castsReqs |-> 0, profile |-> "none", handled |-> FALSE, casts |-> "none",
   castsSet |-> "never", total |-> Null]
\* One handleShare invocation: user is the user its closure captured,
\* uploads / composes count its uploadToCloudinary / composeCast calls,
\* image is what came of the card image, embeds what it passed to
\* composeCast, alerts the alerts it showed.
idleShare ==
  [pc |-> "idle", user |-> None, uploads |-> 0, image |-> "none",
   composes |-> 0, embeds |-> <<>>, composed |-> "none", alerts |-> <<>>]
\* One handleDownloadCard invocation: pngCalls / posts count its
\* generatePngBlob calls / upload requests, alerts the alerts it showed.
\* at is the await it ended at.
idleDownload ==
  [pc |-> "idle", at |-> "idle", pngCalls |-> 0, posts |-> 0, alerts |-> <<>>]

LoadFinished(l) == l.pc \in {"returned", "thrown"}

\* the user test placed before the error test: a set user hides the error
View_UserBeforeError(l, e, u) ==
  IF l THEN "loading"
  ELSE IF u # None THEN "dashboard"
  ELSE IF e # NullVal THEN "error"
  ELSE "nouser"

\* what App returns for the committed state (the four early returns)
View(l, e, u) ==
  IF l THEN "loading"
  ELSE IF e # NullVal THEN "error"
  ELSE IF u = None THEN "nouser"
  ELSE "dashboard"

\* ------------------------------------------------------------ Dashboard
backgroundOptions ==
  << "linear-gradient(135deg, #667eea 0%, #764ba2 100%)",
     "linear-gradient(135deg, #f093fb 0%, #f5576c 100%)",
     "linear-gradient(135deg, #4facfe 0%, #00f2fe 100%)",
     "linear-gradient(135deg, #43e97b 0%, #38f9d7 100%)",
     "linear-gradient(135deg, #fa709a 0%, #fee140 100%)",
     "#020617" >>

\* Array.prototype.indexOf: the 0-based index of the first match, -1 if none
IndexOf(seq, v) ==
  IF \E k \in 1..Len(seq) : seq[k] = v
  THEN (CHOOSE k \in 1..Len(seq) :
          seq[k] = v /\ \A j \in 1..(k - 1) : seq[j] # v) - 1
  ELSE -1

\* the value changeCardBackground passes to setCardBackground when its
\* closure holds bg
NextBackground(bg) ==
  LET currentIndex == IndexOf(backgroundOptions, bg)
      nextIndex == (currentIndex + 1) % Len(backgroundOptions)
  IN  backgroundOptions[nextIndex + 1]

\* The Recent Activity section of the Dashboard: the text of the single
\* placeholder item, the key (hash) of every cast item, or the two fixed
\* items of the empty list.  NotMounted stands for a render without Dashboard.
NotMounted == [kind |-> "none", items |-> <<>>]

LoadingItem == "Loading your recent casts..."

NoCastsItem == "No recent casts found"

SampleItem == "Sample"

\* hasRealActivity tested without isLoadingCasts: an empty list reads as
\* still loading.
RecentActivity_EmptyIsLoading(casts) ==
  IF casts # None /\ Len(casts[1]) > 0
  THEN [kind |-> "casts",
        items |-> [k \in 1..Len(casts[1]) |-> casts[1][k].hash]]
  ELSE [kind |-> "loading", items |-> <<LoadingItem>>]

RecentActivity(casts) ==
  LET isLoadingCasts == casts = None
      hasRealActivity == casts # None /\ Len(casts[1]) > 0
  IN  IF isLoadingCasts
      THEN [kind |-> "loading", items |-> <<LoadingItem>>]
      ELSE IF hasRealActivity
      THEN [kind |-> "casts",
            items |-> [k \in 1..Len(casts[1]) |-> casts[1][k].hash]]
      ELSE [kind |-> "empty", items |-> <<NoCastsItem, SampleItem>>]

\* ------------------------------------------------------------------- Init
InitApp ==
  /\ NEYNAR_API_KEY \in BOOLEAN
  /\ CLOUDINARY_CLOUD_NAME \in BOOLEAN
  /\ CLOUDINARY_UPLOAD_PRESET \in BOOLEAN
  /\ user = None
  /\ recentCasts = None
  /\ error = NullVal
  /\ loading = TRUE
  /\ sharing = FALSE
  /\ rendered = [view |-> "loading", loading |-> TRUE, error |-> NullVal,
                 user |-> None, sharing |-> FALSE,
                 recentCasts |-> None, activity |-> NotMounted,
                 cardBackground |-> backgroundOptions[1]]
  /\ cardRef = FALSE
  /\ initPc = "start"
  /\ loads = [i \in LoadIds |-> idleLoad]
  /\ shares = [i \in ShareIds |-> idleShare]
  /\ downloads = [i \in DownloadIds |-> idleDownload]
  /\ pngCall = None
  /\ uploadCall = None
  /\ rawCast = None
  /\ mappedCast = None
  /\ mergeCall = None
  /\ addressCall = None
  /\ cardBackground = backgroundOptions[1]
  /\ presses = 0
  /\ clickedStat = NullVal
  /\ isCardClicked = FALSE
  /\ floatingElements = <<>>
  /\ timers = <<>>
  /\ clicks = 0
  /\ lastId = 0
  /\ highlightBy = 0
  /\ lastFired = None

\* the build as the source has it: PNG_METHOD = 'html2canvas'
Init == InitApp /\ PNG_METHOD = "html2canvas"

\* the builds PNG_METHOD can be switched to
InitImage == InitApp /\ PNG_METHOD \in PngMethodValues

\* ----------------------------------------------------- helper functions
\* castsData.result.casts.map calls its callback on one cast object
MapCallback ==
  /\ rawCast = None
  /\ \E c \in RawCast :
       /\ rawCast' = Some(c)
       /\ mappedCast' = Some(MapCast(c))
  /\ UNCHANGED <<config, reactState, rendered, cardRef, initPc, loads, shares,
                 downloads, pngCall, uploadCall, mergeCall, addressCall,
                 dashboardState>>

\* the user objects a profile response can carry.  A string field is absent
\* (null or undefined), empty or filled; a count is absent, 0 or positive;
\* the score is a number or not.
ProfileInputs ==
  [username : {Undef, "alice"}, display_name : {Undef, "Alice"},
   pfp_url : {Undef, "", "pfp.png"},
   follower_count : {Null, 0, 120}, following_count : {Null, 7},
   bio : {Undef, "", "hello"},
   city : {Undef, "Oslo"}, country : {Undef, "", "Norway"},
   primary_eth : {Undef, "", "0xprimary"}, eth0 : {Undef, "0xeth0"},
   custody_address : {Undef, "", "0xcustody"},
   score : {Null, 87}]

\* one run of the setUser updater of the profile response
CallMergeProfile ==
  /\ mergeCall = None
  /\ \E prev \in {None, Some(baseUser), Some(fullUser)}, u \in ProfileInputs :
       mergeCall' = Some([prev |-> prev, u |-> u,
                          out |-> MergeProfile(prev, u, Fid)])
  /\ UNCHANGED <<config, reactState, rendered, cardRef, initPc, loads, shares,
                 downloads, pngCall, uploadCall, rawCast, mappedCast,
                 addressCall, dashboardState>>

\* the characters of an address whose characters are all different
HexChars ==
  <<"0", "x", "1", "2", "3", "4", "5", "6", "7", "8", "9", "a", "b", "c", "d",
    "e", "f">>

DistinctAddress(n) == SubSeq(HexChars, 1, n)

RECURSIVE SeqsOver(_, _)
SeqsOver(S, n) ==
  IF n = 0 THEN {<<>>}
  ELSE LET shorter == SeqsOver(S, n - 1)
       IN  shorter \cup {Append(s, c) : s \in shorter, c \in S}

\* the arguments of formatAddress: no address, every string of "0" and "f"
\* up to the bound (the empty one included), and one address of each length
\* with no repeated character
AddressInputs ==
  {Missing}
    \cup {Chars(s) : s \in SeqsOver({"0", "f"}, MaxAddressLen)}
    \cup {Chars(DistinctAddress(n)) : n \in 0..MaxAddressLen}

\* one call of formatAddress(user.primaryAddress)
CallFormatAddress ==
  /\ addressCall = None
  /\ \E a \in AddressInputs :
       addressCall' = Some([address |-> a, out |-> formatAddress(a)])
  /\ UNCHANGED <<config, reactState, rendered, cardRef, initPc, loads, shares,
                 downloads, pngCall, uploadCall, rawCast, mappedCast,
                 mergeCall, dashboardState>>

\* one call of generatePngBlob
CallGeneratePngBlob ==
  /\ pngCall = None
  /\ \E e \in PngEnvOf(PNG_METHOD) :
       pngCall' = Some([env |-> e, out |-> generatePngBlob(PNG_METHOD, e)])
  /\ UNCHANGED <<config, reactState, rendered, cardRef, initPc, loads, shares,
                 downloads, uploadCall, rawCast, mappedCast, mergeCall,
                 addressCall, dashboardState>>

\* one call of uploadToCloudinary, as handleShare and setupEmbedMetaTag
\* make it
CallUploadToCloudinary ==
  /\ uploadCall = None
  /\ \E e \in UploadEnvOf(PNG_METHOD) :
       uploadCall' =
         Some([env |-> e,
               out |-> uploadToCloudinary(CLOUDINARY_CLOUD_NAME,
                         CLOUDINARY_UPLOAD_PRESET, PNG_METHOD, e)])
  /\ UNCHANGED <<config, reactState, rendered, cardRef, initPc, loads, shares,
                 downloads, pngCall, rawCast, mappedCast, mergeCall,
                 addressCall, dashboardState>>

\* ------------------------------------------------------- loadNeynarData
FetchAnswers == {"ok", "notok", "throw"}

SendProfile(l) == [l EXCEPT !.pc = "awaitProfile", !.profileReqs = @ + 1]
SendCasts(l) == [l EXCEPT !.pc = "awaitCasts", !.castsReqs = @ + 1]

\* the mutant of BeginLoad: both requests go out at once (Promise.all)
BeginLoad_Parallel(fid, showLoading) ==
  LET l == [idleLoad EXCEPT !.fid = fid, !.showLoading = showLoading]
  IN  IF ~NEYNAR_API_KEY THEN [l EXCEPT !.pc = "returned"]
      ELSE [SendCasts(l) EXCEPT !.profileReqs = @ + 1]

\* the synchronous head of loadNeynarData, up to the first await
BeginLoad(fid, showLoading) ==
  LET l == [idleLoad EXCEPT !.fid = fid, !.showLoading = showLoading]
  IN  IF ~NEYNAR_API_KEY THEN [l EXCEPT !.pc = "returned"]
      ELSE SendProfile(l)

\* the mutant of OnProfileResponse: a not-ok answer is retried once
OnProfileResponse_RetryOnce(l, res) ==
  IF res = "throw" THEN [l EXCEPT !.pc = "thrown"]
  ELSE IF res = "ok"
       THEN [l EXCEPT !.pc = "awaitProfileJson", !.profile = "ok"]
       ELSE IF l.profileReqs < 2 THEN SendProfile(l)
       ELSE [l EXCEPT !.pc = "awaitProfileText", !.profile = "notok"]

\* await fetch(userUrl) settles
OnProfileResponse(l, res) ==
  IF res = "throw" THEN [l EXCEPT !.pc = "thrown"]
  ELSE IF res = "ok"
       THEN [l EXCEPT !.pc = "awaitProfileJson", !.profile = "ok"]
       ELSE [l EXCEPT !.pc = "awaitProfileText", !.profile = "notok"]

\* the body of the profile response has been read (or reading it threw):
\* the if/else is over and the casts request goes out
OnProfileBody(l, threw) ==
  IF threw THEN [l EXCEPT !.pc = "thrown"]
  ELSE SendCasts([l EXCEPT !.handled = TRUE])

\* await fetch(castsUrl) settles
OnCastsResponse(l, res) ==
  IF res = "throw" THEN [l EXCEPT !.pc = "thrown"]
  ELSE IF res = "ok"
       THEN [l EXCEPT !.pc = "awaitCastsJson", !.casts = "ok"]
       ELSE [l EXCEPT !.pc = "awaitCastsText", !.casts = "notok"]

\* await castsRes.text() settles inside console.warn(...), then
\* setRecentCasts([])
OnCastsText(l, threw) ==
  IF threw THEN [l EXCEPT !.pc = "thrown"]
  ELSE [l EXCEPT !.pc = "returned", !.castsSet = "empty"]

\* await castsRes.json() settles, then setRecentCasts(casts)
OnCastsJson(l, threw) ==
  IF threw THEN [l EXCEPT !.pc = "thrown"]
  ELSE [l EXCEPT !.pc = "returned", !.castsSet = "list"]

LoadFrame == <<config, error, loading, sharing, rendered, cardRef, initPc,
               shares, downloads, helperCalls, dashboardState>>

ProfileResponds(i) ==
  /\ loads[i].pc = "awaitProfile"
  /\ \E res \in FetchAnswers :
       loads' = [loads EXCEPT ![i] = OnProfileResponse(@, res)]
  /\ UNCHANGED <<LoadFrame, user, recentCasts>>

\* const data = await userRes.json(); const u = data.users?.[0]; setUser(...)
ProfileJson(i) ==
  /\ loads[i].pc = "awaitProfileJson"
  /\ \/ /\ loads' = [loads EXCEPT ![i] = OnProfileBody(@, TRUE)]
        /\ UNCHANGED user
     \/ /\ loads' = [loads EXCEPT ![i] = OnProfileBody(@, FALSE)]
        /\ \E u \in {None} \cup {Some(x) : x \in ProfileUsers} :
             user' = IF u = None THEN user
                     ELSE MergeProfile(user, u[1], loads[i].fid)
  /\ UNCHANGED <<LoadFrame, recentCasts>>

\* console.warn("...", await userRes.text())
ProfileText(i) ==
  /\ loads[i].pc = "awaitProfileText"
  /\ \E threw \in BOOLEAN :
       loads' = [loads EXCEPT ![i] = OnProfileBody(@, threw)]
  /\ UNCHANGED <<LoadFrame, user, recentCasts>>

CastsResponds(i) ==
  /\ loads[i].pc = "awaitCasts"
  /\ \E res \in FetchAnswers :
       loads' = [loads EXCEPT ![i] = OnCastsResponse(@, res)]
  /\ UNCHANGED <<LoadFrame, user, recentCasts>>

CastsText(i) ==
  /\ loads[i].pc = "awaitCastsText"
  /\ \E threw \in BOOLEAN :
       /\ loads' = [loads EXCEPT ![i] = OnCastsText(@, threw)]
       /\ recentCasts' = IF threw THEN recentCasts ELSE Some(<<>>)
  /\ UNCHANGED <<LoadFrame, user>>

CastsJson(i) ==
  /\ loads[i].pc = "awaitCastsJson"
  /\ \/ /\ loads' = [loads EXCEPT ![i] = OnCastsJson(@, TRUE)]
        /\ UNCHANGED <<user, recentCasts>>
     \/ \E body \in CastsBodies :
             /\ loads' = [loads EXCEPT
                            ![i] = [OnCastsJson(@, FALSE) EXCEPT
                                      !.total = body.total]]
             /\ recentCasts' = Some(ResponseCasts(body))
             /\ user' = UpdateCounts(user, body)
  /\ UNCHANGED LoadFrame

\* ---------------------------------------------------------------- render
\* React renders App with the committed state: the handlers of this render
\* capture user and sharing, the share button gets disabled={sharing}, and
\* the commit attaches cardRef when the Dashboard is mounted.  Of the
\* captured user the handlers read fid and username (and, for the share
\* text only, the display fields).
\* loading and error are the values the four returns of App tested;
\* recentCasts is the prop of the Dashboard, activity what its Recent
\* Activity section shows for it, cardBackground what its closures captured.
Snapshot ==
  [view |-> View(loading, error, user),
   loading |-> loading,
   error |-> error,
   user |-> IF user = None THEN None
            ELSE Some([fid |-> user[1].fid, username |-> user[1].username]),
   sharing |-> sharing,
   recentCasts |-> IF View(loading, error, user) = "dashboard"
                   THEN recentCasts ELSE None,
   activity |-> IF View(loading, error, user) = "dashboard"
                THEN RecentActivity(recentCasts) ELSE NotMounted,
   cardBackground |-> cardBackground]

Render ==
  /\ rendered # Snapshot
  /\ rendered' = Snapshot
  /\ cardRef' = (Snapshot.view = "dashboard")
  /\ UNCHANGED <<config, reactState, initPc, loads, shares, downloads,
                 helperCalls, dashboardState>>

\* a press of the background button of the mounted Dashboard: the handler
\* reads cardBackground from the closure of the last render
changeCardBackground ==
  /\ rendered.view = "dashboard"
  /\ presses < MaxPresses
  /\ cardBackground' = NextBackground(rendered.cardBackground)
  /\ presses' = presses + 1
  /\ UNCHANGED <<config, reactState, rendered, cardRef, initPc, loads, shares,
                 downloads, helperCalls, clickState>>

\* ------------------------------------------------- click micro-interactions
StatNames == {"followers", "following", "casts", "reactions"}

\* the delay of each setTimeout, in ms
Delay(kind) ==
  CASE kind = "stat" -> 200
    [] kind = "card" -> 300
    [] kind = "float" -> 2000

\* A pending timer can fire when no other pending timer is due earlier:
\* one set by the same or an earlier click with the same or a shorter delay.
CanFire(k) ==
  \A j \in 1..Len(timers) :
    j # k => ~( /\ timers[j].click <= timers[k].click
                /\ Delay(timers[j].kind) <= Delay(timers[k].kind) )

RemoveAt(seq, k) == SubSeq(seq, 1, k - 1) \o SubSeq(seq, k + 1, Len(seq))

\* the filter with === in place of !==: the elements of the id are kept
FilterFloating_KeepMatch(prev, id) ==
  LET Test(el) == el = id IN SelectSeq(prev, Test)

\* prev.filter(el => el.id !== newElement.id)
FilterFloating(prev, id) ==
  LET Test(el) == el # id IN SelectSeq(prev, Test)

ClickFrame == <<config, reactState, rendered, cardRef, initPc, loads, shares,
                downloads, helperCalls, cardBackground, presses>>

\* a click on the id card of the mounted Dashboard
handleCardClick ==
  /\ rendered.view = "dashboard"
  /\ clicks < MaxClicks
  /\ clicks' = clicks + 1
  /\ isCardClicked' = TRUE
  /\ timers' = Append(timers, [kind |-> "card", click |-> clicks + 1,
                               id |-> 0])
  /\ UNCHANGED <<ClickFrame, clickedStat, floatingElements, lastId,
                 highlightBy, lastFired>>

\* a click on a stat card of the mounted Dashboard; the id of the floating
\* element is Date.now(), the same as or later than that of the last click
handleStatClick(statName) ==
  /\ rendered.view = "dashboard"
  /\ clicks < MaxClicks
  /\ clicks' = clicks + 1
  /\ clickedStat' = statName
  /\ highlightBy' = clicks + 1
  /\ \E id \in (IF lastId = 0 THEN {1} ELSE {lastId, lastId + 1}) :
       /\ lastId' = id
       /\ floatingElements' = Append(floatingElements, id)
       /\ timers' = timers \o
            << [kind |-> "stat", click |-> clicks + 1, id |-> 0],
               [kind |-> "float", click |-> clicks + 1, id |-> id] >>
  /\ UNCHANGED <<ClickFrame, isCardClicked, lastFired>>

\* the callback of the pending timer k runs
TimerFires(k) ==
  /\ k \in 1..Len(timers)
  /\ CanFire(k)
  /\ timers' = RemoveAt(timers, k)
  /\ lastFired' = Some(timers[k])
  /\ clickedStat' = IF timers[k].kind = "stat" THEN NullVal ELSE clickedStat
  /\ isCardClicked' = IF timers[k].kind = "card" THEN FALSE
                      ELSE isCardClicked
  /\ floatingElements' =
       IF timers[k].kind = "float"
       THEN FilterFloating(floatingElements, timers[k].id)
       ELSE floatingElements
  /\ UNCHANGED <<ClickFrame, clicks, lastId, highlightBy>>

ClickSteps ==
  \/ handleCardClick
  \/ \E statName \in StatNames : handleStatClick(statName)
  \/ \E k \in 1..(2 * MaxClicks) : TimerFires(k)

\* ------------------------------------------------------------------ init
\* const inMiniApp = true
inMiniApp == TRUE

\* useEffect(() => { void init() }, []) up to await loadNeynarData(u.fid)
InitStart ==
  /\ initPc = "start"
  /\ IF ~inMiniApp
     THEN /\ error' = "Open this mini app from inside a Farcaster/Base client"
          /\ loading' = FALSE
          /\ initPc' = "done"
          /\ UNCHANGED <<user, loads>>
     ELSE /\ user' = Some(baseUser)
          /\ loads' = [loads EXCEPT ![1] = BeginLoad(baseUser.fid, FALSE)]
          /\ initPc' = "awaitLoad"
          /\ UNCHANGED <<error, loading>>
  /\ UNCHANGED <<config, recentCasts, sharing, rendered, cardRef, shares,
                 downloads, helperCalls, dashboardState>>

\* a catch block that sets the error but leaves setLoading(false) out
OnInitLoadSettled_CatchKeepsLoading(err, threw) ==
  [error |-> IF threw
             THEN "Failed to load data from Farcaster Mini App context."
             ELSE err,
   loading |-> threw]

\* what init commits when await loadNeynarData settles: setLoading(false)
\* after a return, setError(...) and setLoading(false) in the catch
OnInitLoadSettled(err, threw) ==
  [error |-> IF threw
             THEN "Failed to load data from Farcaster Mini App context."
             ELSE err,
   loading |-> FALSE]

\* init resumes after await loadNeynarData: setLoading(false), or the catch
InitFinish ==
  /\ initPc = "awaitLoad"
  /\ LoadFinished(loads[1])
  /\ error' = OnInitLoadSettled(error, loads[1].pc = "thrown").error
  /\ loading' = OnInitLoadSettled(error, loads[1].pc = "thrown").loading
  /\ initPc' = "done"
  /\ UNCHANGED <<config, user, recentCasts, sharing, rendered, cardRef, loads,
                 shares, downloads, helperCalls, dashboardState>>

\* ------------------------------------------------------ handleRefreshData
\* the refresh button of the mounted Dashboard: if (!user) return;
\* await loadNeynarData(user.fid, true)
handleRefreshData(i) ==
  /\ rendered.view = "dashboard"
  /\ i > 1
  /\ loads[i].pc = "idle"
  /\ \A j \in LoadIds : j < i => loads[j].pc # "idle"
  /\ IF rendered.user = None
     THEN UNCHANGED <<loads, recentCasts>>
     ELSE /\ recentCasts' = None
          /\ loads' = [loads EXCEPT ![i] = BeginLoad(rendered.user[1].fid, TRUE)]
  /\ UNCHANGED <<LoadFrame, user>>

LoadStepsOf(i) ==
  \/ ProfileResponds(i)
  \/ ProfileJson(i)
  \/ ProfileText(i)
  \/ CastsResponds(i)
  \/ CastsJson(i)
  \/ CastsText(i)

LoadSteps == \E i \in LoadIds : LoadStepsOf(i)

Startup == InitStart \/ InitFinish \/ Render \/ LoadSteps

NextLoad == Startup \/ (\E i \in LoadIds : handleRefreshData(i))
\* loadNeynarData reads NEYNAR_API_KEY only: the Cloudinary settings are
\* fixed to a configured build
InitLoad == Init /\ CLOUDINARY_CLOUD_NAME /\ CLOUDINARY_UPLOAD_PRESET
SpecLoad == InitLoad /\ [][NextLoad]_vars

\* ------------------------------------------------------------ handleShare
\* await sdk.actions.composeCast({text, embeds})
ComposeCast(s, embeds) ==
  [s EXCEPT !.pc = "awaitCompose", !.composes = @ + 1, !.embeds = embeds]

\* the embeds of an earlier version: the image alone, without MINIAPP_URL
ShareEmbeds_ImageOnly(r, u) ==
  IF r.kind = "resolved" /\ r.value \notin {NullVal, Undef, ""}
  THEN IF u # None THEN <<r.value, "@" \o u[1].username>>
       ELSE <<r.value>>
  ELSE <<MINIAPP_URL>>

\* the embeds after the upload settled with result r
ShareEmbeds(r, u) ==
  IF r.kind = "resolved" /\ r.value \notin {NullVal, Undef, ""}
  THEN IF u # None THEN <<r.value, MINIAPP_URL, "@" \o u[1].username>>
       ELSE <<r.value, MINIAPP_URL>>
  ELSE <<MINIAPP_URL>>

\* handleShare from its first line to its first await; csharing and cuser
\* are the sharing and user of the closure, ref is cardRef.current
EnterShare(csharing, cuser, ref) ==
  IF csharing THEN [idleShare EXCEPT !.pc = "stopped", !.user = cuser]
  ELSE IF ref
       THEN [idleShare EXCEPT !.pc = "awaitUpload", !.user = cuser,
                              !.uploads = @ + 1]
       ELSE ComposeCast([idleShare EXCEPT !.user = cuser, !.image = "noref"],
                        <<MINIAPP_URL>>)

\* the mutant of OnUploadSettled: without an image the share is given up
OnUploadSettled_GiveUp(s, r) ==
  IF r.kind = "resolved" /\ r.value \notin {NullVal, Undef, ""}
  THEN ComposeCast([s EXCEPT !.image = "url"], ShareEmbeds(r, s.user))
  ELSE [s EXCEPT !.pc = "awaitCompose",
                 !.image = IF r.kind = "rejected" THEN "threw" ELSE "null"]

\* await uploadToCloudinary(cardRef.current) settles with r; the share
\* text is built and composeCast is called.  The text is a string built from
\* fields of the captured user with ?., ?? and truthiness tests only: it
\* cannot throw, and its content is not kept.
OnUploadSettled(s, r) ==
  ComposeCast([s EXCEPT !.image = IF r.kind = "rejected" THEN "threw"
                                  ELSE IF r.value \in {NullVal, Undef, ""}
                                       THEN "null" ELSE "url"],
              ShareEmbeds(r, s.user))

\* the outer catch without its alert: a rejected composeCast ends the
\* share silently
OnComposeSettled_SilentFailure(s, ok) ==
  [s EXCEPT !.pc = "done",
            !.composed = IF ok THEN "resolved" ELSE "rejected",
            !.alerts = IF ok THEN Append(@, "shared") ELSE @]

\* await composeCast settles: the success alert, or the outer catch
OnComposeSettled(s, ok) ==
  [s EXCEPT !.pc = "done",
            !.composed = IF ok THEN "resolved" ELSE "rejected",
            !.alerts = Append(@, IF ok THEN "shared" ELSE "failed")]

\* setSharing(false) as the last statement of the try block instead of a
\* finally: a rejected composeCast skips it.
SharingAfterCompose_NoFinally(cur, ok) == IF ok THEN FALSE ELSE cur

\* finally { setSharing(false) }: the committed sharing after composeCast
\* settled, resolved (ok) or rejected
SharingAfterCompose(cur, ok) == FALSE

ShareFrame == <<config, user, recentCasts, error, loading, rendered, cardRef,
                initPc, loads, downloads, helperCalls, dashboardState>>

\* a click on the share button, which the last render left enabled
handleShare(i) ==
  /\ rendered.view = "dashboard"
  /\ ~rendered.sharing
  /\ shares[i].pc = "idle"
  /\ \A j \in ShareIds : j < i => shares[j].pc # "idle"
  /\ shares' = [shares EXCEPT
                  ![i] = EnterShare(rendered.sharing, rendered.user, cardRef)]
  /\ sharing' = IF rendered.sharing THEN sharing ELSE TRUE
  /\ UNCHANGED ShareFrame

ShareUploadSettles(i) ==
  /\ shares[i].pc = "awaitUpload"
  /\ \E r \in { uploadToCloudinary(CLOUDINARY_CLOUD_NAME,
                    CLOUDINARY_UPLOAD_PRESET, PNG_METHOD, e).result :
                  e \in UploadEnvOf(PNG_METHOD) } :
       shares' = [shares EXCEPT ![i] = OnUploadSettled(@, r)]
  /\ UNCHANGED <<ShareFrame, sharing>>

\* composeCast settles; finally { setSharing(false) }
ShareComposeSettles(i) ==
  /\ shares[i].pc = "awaitCompose"
  /\ \E ok \in BOOLEAN :
       /\ shares' = [shares EXCEPT ![i] = OnComposeSettled(@, ok)]
       /\ sharing' = SharingAfterCompose(sharing, ok)
  /\ UNCHANGED ShareFrame

ShareSteps ==
  \E i \in ShareIds :
    \/ handleShare(i)
    \/ ShareUploadSettles(i)
    \/ ShareComposeSettles(i)

\* ----------------------------------------------------- handleDownloadCard
\* alert(...) followed by the end of the handler
Alert(d, a) ==
  [d EXCEPT !.pc = "done", !.alerts = Append(@, a),
            !.at = IF d.pc = "done" THEN @ ELSE d.pc]

\* handleDownloadCard from its first line to await generatePngBlob
EnterDownload(ref, name, preset) ==
  IF ~ref THEN Alert(idleDownload, "notReady")
  ELSE IF ~name \/ ~preset THEN Alert(idleDownload, "configMissing")
  ELSE [idleDownload EXCEPT !.pc = "awaitPng", !.pngCalls = @ + 1]

\* await generatePngBlob settles with r
OnDownloadPng(d, r) ==
  IF r.kind = "rejected" THEN Alert(d, "exception")
  ELSE IF r.value = NullVal THEN Alert(d, "generateFailed")
  ELSE [d EXCEPT !.pc = "awaitReader"]

\* the FileReader promise settles, then fetch(upload URL) is called
OnDownloadReader(d, res) ==
  IF res = "error" THEN Alert(d, "exception")
  ELSE [d EXCEPT !.pc = "awaitUpload", !.posts = @ + 1]

\* await fetch settles
OnDownloadResponse(d, res) ==
  IF res = "throw" THEN Alert(d, "exception")
  ELSE IF res = "ok" THEN [d EXCEPT !.pc = "awaitJson"]
  ELSE [d EXCEPT !.pc = "awaitText"]

\* await uploadResponse.json() settles, then clipboard.writeText is called
OnDownloadJson(d, threw) ==
  IF threw THEN Alert(d, "exception") ELSE [d EXCEPT !.pc = "awaitClipboard"]

\* await uploadResponse.text() settles
OnDownloadText(d, threw) ==
  IF threw THEN Alert(d, "exception") ELSE Alert(d, "uploadFailed")

\* the mutant of OnDownloadClipboard: the success alert is shown before the
\* clipboard write is awaited
OnDownloadClipboard_AlertFirst(d, ok) ==
  IF ok THEN Alert(d, "uploaded")
  ELSE Alert(Alert(d, "uploaded"), "exception")

\* await navigator.clipboard.writeText settles
OnDownloadClipboard(d, ok) ==
  IF ok THEN Alert(d, "uploaded") ELSE Alert(d, "exception")

DownloadFrame == <<config, reactState, rendered, cardRef, initPc, loads,
                   shares, helperCalls, dashboardState>>

\* a click on the download button of the mounted Dashboard
handleDownloadCard(i) ==
  /\ rendered.view = "dashboard"
  /\ downloads[i].pc = "idle"
  /\ \A j \in DownloadIds : j < i => downloads[j].pc # "idle"
  /\ downloads' = [downloads EXCEPT
       ![i] = EnterDownload(cardRef, CLOUDINARY_CLOUD_NAME,
                            CLOUDINARY_UPLOAD_PRESET)]
  /\ UNCHANGED DownloadFrame

DownloadPng(i) ==
  /\ downloads[i].pc = "awaitPng"
  /\ \E e \in PngEnvOf(PNG_METHOD) :
       downloads' = [downloads EXCEPT
         ![i] = OnDownloadPng(@, generatePngBlob(PNG_METHOD, e).result)]
  /\ UNCHANGED DownloadFrame

DownloadReader(i) ==
  /\ downloads[i].pc = "awaitReader"
  /\ \E res \in {"load", "error"} :
       downloads' = [downloads EXCEPT ![i] = OnDownloadReader(@, res)]
  /\ UNCHANGED DownloadFrame

DownloadResponds(i) ==
  /\ downloads[i].pc = "awaitUpload"
  /\ \E res \in FetchAnswers :
       downloads' = [downloads EXCEPT ![i] = OnDownloadResponse(@, res)]
  /\ UNCHANGED DownloadFrame

DownloadJson(i) ==
  /\ downloads[i].pc = "awaitJson"
  /\ \E threw \in BOOLEAN :
       downloads' = [downloads EXCEPT ![i] = OnDownloadJson(@, threw)]
  /\ UNCHANGED DownloadFrame

DownloadText(i) ==
  /\ downloads[i].pc = "awaitText"
  /\ \E threw \in BOOLEAN :
       downloads' = [downloads EXCEPT ![i] = OnDownloadText(@, threw)]
  /\ UNCHANGED DownloadFrame

DownloadClipboard(i) ==
  /\ downloads[i].pc = "awaitClipboard"
  /\ \E ok \in BOOLEAN :
       downloads' = [downloads EXCEPT ![i] = OnDownloadClipboard(@, ok)]
  /\ UNCHANGED DownloadFrame

DownloadSteps ==
  \E i \in DownloadIds :
    \/ handleDownloadCard(i)
    \/ DownloadPng(i)
    \/ DownloadReader(i)
    \/ DownloadResponds(i)
    \/ DownloadJson(i)
    \/ DownloadText(i)
    \/ DownloadClipboard(i)

\* ---------------------------------------------------------- specifications
Next ==
  \/ Startup
  \/ \E i \in LoadIds : handleRefreshData(i)
  \/ ShareSteps
  \/ DownloadSteps
Spec == Init /\ [][Next]_vars

NextDashboard == Startup \/ changeCardBackground
SpecBackground == Init /\ [][NextDashboard]_vars

\* the four views and the first step of every handler the Dashboard wires
\* to a button; of the loads only init's one is followed to its end
NextViews ==
  \/ InitStart
  \/ InitFinish
  \/ Render
  \/ LoadStepsOf(1)
  \/ \E i \in LoadIds : handleRefreshData(i)
  \/ \E i \in ShareIds : handleShare(i)
  \/ \E i \in DownloadIds : handleDownloadCard(i)
SpecViews == Init /\ [][NextViews]_vars

NextClicks == InitStart \/ InitFinish \/ Render \/ LoadStepsOf(1) \/ ClickSteps
SpecClicks == InitLoad /\ [][NextClicks]_vars

NextShare == Startup \/ ShareSteps
SpecShare == Init /\ [][NextShare]_vars

NextDownload == Startup \/ DownloadSteps
SpecDownload == Init /\ [][NextDownload]_vars

NextImage == CallGeneratePngBlob \/ CallUploadToCloudinary
SpecImage == InitImage /\ [][NextImage]_vars

NextCasts == MapCallback
\* the callback runs only in a build with the API key set
InitCasts ==
  Init /\ NEYNAR_API_KEY /\ CLOUDINARY_CLOUD_NAME /\ CLOUDINARY_UPLOAD_PRESET
SpecCasts == InitCasts /\ [][NextCasts]_vars

NextAddress == CallFormatAddress
SpecAddress == InitCasts /\ [][NextAddress]_vars

NextProfile == CallMergeProfile
SpecProfile == InitCasts /\ [][NextProfile]_vars

\* ------------------------------------------------------------------ claims
FirstNonNull(seq, v) ==
  \/ \E k \in 1..Len(seq) :
       /\ seq[k] # Null
       /\ \A j \in 1..(k - 1) : seq[j] = Null
       /\ v = seq[k]
  \/ /\ \A k \in 1..Len(seq) : seq[k] = Null
     /\ v = 0

\* C1: for every cast object of the casts response the stored likes is the
\* first of reactions.likes_count, reactions.likes, like_count, likes that
\* is neither null nor undefined, and 0 when all four are absent; recasts
\* likewise from reactions.recasts_count, reactions.recasts, recast_count,
\* recasts.
C1_FirstNonNullCounts ==
  mappedCast # None =>
    LET c == rawCast[1]
        r == c.reactions
        m == mappedCast[1]
        rl == IF r = None THEN <<Null, Null>>
              ELSE <<r[1].likes_count, r[1].likes>>
        rr == IF r = None THEN <<Null, Null>>
              ELSE <<r[1].recasts_count, r[1].recasts>>
    IN  /\ FirstNonNull(rl \o <<c.like_count, c.likes>>, m.likes)
        /\ FirstNonNull(rr \o <<c.recast_count, c.recasts>>, m.recasts)

\* a cast whose first present likes field holds 0 and a later one holds 2
C1_Witness ==
  /\ mappedCast # None
  /\ rawCast[1].reactions # None
  /\ rawCast[1].reactions[1].likes_count = Null
  /\ rawCast[1].reactions[1].likes = 0
  /\ rawCast[1].like_count = 2
  /\ mappedCast[1].likes = 0
  /\ rawCast[1].recast_count = Null
  /\ rawCast[1].recasts = Null
  /\ rawCast[1].reactions[1].recasts_count = Null
  /\ rawCast[1].reactions[1].recasts = Null
  /\ mappedCast[1].recasts = 0

ShareInFlight(i) == shares[i].pc \in {"awaitUpload", "awaitCompose"}

\* C2: at any time at most one handleShare invocation is past its
\* `if (sharing) return` guard and not yet finished, whatever the sequence
\* of clicks, clicks before the re-render included.
C2_AtMostOneShareInFlight ==
  Cardinality({i \in ShareIds : ShareInFlight(i)}) <= 1

\* C3: no network step is retried: one loadNeynarData invocation sends the
\* profile request at most once and the casts request at most once, one
\* handleShare invocation calls uploadToCloudinary at most once and
\* composeCast at most once, whatever the outcome of each step.
C3_NoRetry ==
  /\ \A i \in LoadIds : loads[i].profileReqs <= 1 /\ loads[i].castsReqs <= 1
  /\ \A i \in ShareIds : shares[i].uploads <= 1 /\ shares[i].composes <= 1

\* every step of a load and of a share failed, and each was made once
C3_Witness ==
  /\ \E i \in LoadIds :
       /\ loads[i].pc = "returned"
       /\ loads[i].profile = "notok"
       /\ loads[i].casts = "notok"
       /\ loads[i].profileReqs = 1
       /\ loads[i].castsReqs = 1
  /\ \E i \in ShareIds :
       /\ shares[i].pc = "done"
       /\ shares[i].image = "null"
       /\ shares[i].alerts = <<"failed">>
       /\ shares[i].uploads = 1
       /\ shares[i].composes = 1

\* C4: when the card image cannot be produced (uploadToCloudinary returns
\* null or throws, or cardRef.current is null) handleShare still calls
\* composeCast exactly once, with embeds [MINIAPP_URL].
C4_TextOnlyShare ==
  \A i \in ShareIds :
    shares[i].image \in {"null", "threw", "noref"} =>
      /\ shares[i].composes = 1
      /\ shares[i].embeds = <<MINIAPP_URL>>

\* a finished share whose upload returned null
C4_Witness ==
  \E i \in ShareIds :
    /\ shares[i].pc = "done"
    /\ shares[i].uploads = 1
    /\ shares[i].image = "null"
    /\ shares[i].composes = 1

\* C5: with an API key set, one loadNeynarData invocation sends the casts
\* request only after the profile response has been fully handled, never
\* while the profile request is in flight, and sends it whether the profile
\* response was ok or not ok.
C5_Sequential ==
  \A i \in LoadIds :
    LET l == loads[i]
    IN  /\ l.castsReqs > 0 =>
             /\ NEYNAR_API_KEY
             /\ l.profileReqs = 1
             /\ l.profile \in {"ok", "notok"}
             /\ l.handled
        /\ l.pc \in {"awaitProfile", "awaitProfileJson", "awaitProfileText"}
             => l.castsReqs = 0
        /\ l.handled => l.castsReqs = 1
        /\ (NEYNAR_API_KEY /\ l.pc = "returned") => l.castsReqs = 1

\* one invocation sent the casts request after an ok profile response,
\* another after a not-ok one
C5_Witness ==
  /\ \E i \in LoadIds :
       /\ loads[i].profile = "ok"
       /\ loads[i].castsReqs = 1
  /\ \E i \in LoadIds :
       /\ loads[i].profile = "notok"
       /\ loads[i].castsReqs = 1

\* C6: generatePngBlob calls exactly one rasterization library per
\* invocation, the one PNG_METHOD names, and html2canvas for any other value
\* of PNG_METHOD.
C6_OneSelectedLibrary ==
  pngCall # None =>
    LET libs == pngCall[1].out.libs
    IN  /\ Len(libs) = 1
        /\ libs[1] = IF PNG_METHOD \in PngMethods THEN PNG_METHOD
                      ELSE "html2canvas"
        /\ pngCall[1].out.warned = (PNG_METHOD \notin PngMethods)

\* a call under an unknown PNG_METHOD, which rasterized with html2canvas
C6_Witness ==
  /\ pngCall # None
  /\ PNG_METHOD \notin PngMethods
  /\ pngCall[1].out.libs = <<"html2canvas">>

\* C7: generatePngBlob never rejects; when the selected library throws or
\* rejects, the error is logged and the returned promise resolves to null.
C7_NeverRejects ==
  pngCall # None =>
    /\ pngCall[1].out.result.kind = "resolved"
    /\ pngCall[1].env.lib = "reject" =>
         /\ pngCall[1].out.logged
         /\ pngCall[1].out.result = Resolved(NullVal)

\* C8: uploadToCloudinary never rejects and returns the image URL only when
\* the upload POST answered ok; it returns null without sending the POST
\* when the cloud name or the upload preset is missing, when no .fc-idcard
\* element is found or when generatePngBlob returned null; it returns null
\* when the POST answered not ok or any step threw.
C8_UploadOutcome ==
  uploadCall # None =>
    LET e == uploadCall[1].env
        o == uploadCall[1].out
        configured == CLOUDINARY_CLOUD_NAME /\ CLOUDINARY_UPLOAD_PRESET
        blobNull == o.png = Some(Resolved(NullVal))
        blobOk == o.png = Some(Resolved("blob"))
        threw == \/ o.png = Some(Rejected)
                 \/ blobOk /\ e.reader = "error"
                 \/ o.posts = 1 /\ e.fetch = "throw"
                 \/ o.posts = 1 /\ e.fetch # "throw" /\ e.body = "throw"
    IN  /\ o.result.kind = "resolved"
        /\ o.result.value = ImageUrl => (o.posts = 1 /\ e.fetch = "ok")
        /\ o.posts <= 1
        /\ (~configured \/ ~e.card \/ blobNull) =>
              (o.posts = 0 /\ o.result.value = NullVal)
        /\ ~configured => o.png = None
        /\ (o.posts = 1 /\ e.fetch = "notok") => o.result.value = NullVal
        /\ threw => o.result.value = NullVal

\* a configured call that found the card and got null from generatePngBlob
C8_Witness ==
  /\ uploadCall # None
  /\ CLOUDINARY_CLOUD_NAME /\ CLOUDINARY_UPLOAD_PRESET
  /\ uploadCall[1].env.card
  /\ uploadCall[1].out.png = Some(Resolved(NullVal))
  /\ uploadCall[1].out.posts = 0
  /\ uploadCall[1].out.result = Resolved(NullVal)

AlertKinds == {"notReady", "configMissing", "generateFailed", "uploadFailed",
               "uploaded", "exception"}

\* C9: every handleDownloadCard invocation ends with exactly one alert (card
\* not ready, configuration missing, image generation failed, upload failed,
\* upload succeeded, or exception caught, a rejected clipboard write after a
\* successful upload included); no path shows zero alerts or two.
C9_ExactlyOneAlert ==
  \A i \in DownloadIds :
    LET d == downloads[i]
    IN  /\ d.pc = "done" => (Len(d.alerts) = 1 /\ d.alerts[1] \in AlertKinds)
        /\ d.pc # "done" => d.alerts = <<>>

\* an invocation whose upload succeeded and whose clipboard write rejected
C9_Witness ==
  \E i \in DownloadIds :
    /\ downloads[i].pc = "done"
    /\ downloads[i].at = "awaitClipboard"
    /\ downloads[i].posts = 1
    /\ downloads[i].alerts = <<"exception">>

\* C10: when the casts request answers not ok, loadNeynarData sets
\* recentCasts to the empty list.
C10_NotOkSetsEmpty ==
  \A i \in LoadIds :
    (LoadFinished(loads[i]) /\ loads[i].casts = "notok") =>
      loads[i].castsSet = "empty"

\* C11: the mounted Dashboard shows exactly one of three Recent Activity
\* views, chosen by the recentCasts prop alone: the loading placeholder iff
\* recentCasts is undefined, one item per cast (keyed by its hash, in order)
\* iff it is a non-empty list, and the "No recent casts found" item followed
\* by the sample item iff it is an empty list.
C11_ActivityView ==
  rendered.view = "dashboard" =>
    LET a == rendered.activity
        p == rendered.recentCasts
    IN  /\ a.kind \in {"loading", "casts", "empty"}
        /\ (a.kind = "loading") <=> (p = None)
        /\ (a.kind = "casts") <=> (p # None /\ Len(p[1]) > 0)
        /\ (a.kind = "empty") <=> (p # None /\ Len(p[1]) = 0)
        /\ a.kind = "loading" => a.items = <<LoadingItem>>
        /\ a.kind = "empty" => a.items = <<NoCastsItem, SampleItem>>
        /\ a.kind = "casts" =>
             /\ Len(a.items) = Len(p[1])
             /\ \A k \in 1..Len(p[1]) : a.items[k] = p[1][k].hash

\* An empty list has been rendered after a render of the placeholder was
\* replaced: the Dashboard shows the two fixed items.
C11_Witness ==
  /\ rendered.view = "dashboard"
  /\ rendered.recentCasts = Some(<<>>)
  /\ rendered.activity.kind = "empty"

\* C12: changeCardBackground cycles through the six backgroundOptions in
\* list order with wrap-around: cardBackground is always one of the six
\* entries, every press moves it to the next entry (the last to the first),
\* so after n presses it is the entry n places (mod 6) after the first and
\* six presses bring it back to where it started.
C12_CyclesInOrder ==
  /\ \E k \in 1..Len(backgroundOptions) : cardBackground = backgroundOptions[k]
  /\ cardBackground = backgroundOptions[(presses % Len(backgroundOptions)) + 1]

\* C13: the loading state of Recent Activity ends: once a loadNeynarData
\* invocation has returned or thrown and none is still in progress,
\* recentCasts is a list (no longer undefined), whatever the API key, the
\* responses and the fetch calls did.
C13_LoadingEnds ==
  ( /\ \E i \in LoadIds : LoadFinished(loads[i])
    /\ \A i \in LoadIds : loads[i].pc = "idle" \/ LoadFinished(loads[i]) )
  => recentCasts # None

\* C14: every handleShare invocation that set sharing to true sets it back
\* to false when it finishes, whether composeCast resolved or rejected and
\* whatever the upload did: the step that ends an invocation leaves sharing
\* false, and sharing is never true while no share is in flight.
C14_SharingReset ==
  /\ []((\A i \in ShareIds : ~ShareInFlight(i)) => ~sharing)
  /\ [][\A i \in ShareIds :
          (ShareInFlight(i) /\ shares'[i].pc = "done") => ~sharing']_vars

\* a share whose composeCast rejected, after an upload that gave no URL,
\* has ended and sharing is false again
C14_Witness ==
  /\ shares[1].pc = "done"
  /\ shares[1].composed = "rejected"
  /\ shares[1].image = "null"
  /\ ~sharing

\* C15: a handleShare invocation that passed the sharing guard shows no
\* alert while it is in flight and exactly one when it has ended: the
\* success alert iff composeCast resolved, the failure alert iff composeCast
\* rejected into the outer catch.  An invocation stopped by the guard
\* (closure sharing = true, whatever the captured user and cardRef) shows no
\* alert and calls neither uploadToCloudinary nor composeCast.
C15_OneShareAlert ==
  /\ \A i \in ShareIds :
       LET s == shares[i]
       IN  /\ ShareInFlight(i) => s.alerts = <<>>
           /\ s.pc = "done" =>
                /\ Len(s.alerts) = 1
                /\ s.composed \in {"resolved", "rejected"}
                /\ (s.alerts = <<"shared">>) <=> (s.composed = "resolved")
                /\ (s.alerts = <<"failed">>) <=> (s.composed = "rejected")
           /\ s.pc \in {"idle", "stopped"} =>
                s.alerts = <<>> /\ s.uploads = 0 /\ s.composes = 0
  /\ \A u \in {None, rendered.user}, ref \in BOOLEAN :
       LET s == EnterShare(TRUE, u, ref)
       IN  s.pc = "stopped" /\ s.alerts = <<>> /\ s.uploads = 0
           /\ s.composes = 0

\* two shares have ended, one with the failure alert and one with the
\* success alert
C15_Witness ==
  /\ shares[1].pc = "done" /\ shares[1].alerts = <<"failed">>
  /\ shares[2].pc = "done" /\ shares[2].alerts = <<"shared">>

\* C16: init sets loading to false on every path (not in a mini app, after
\* loadNeynarData returned, in the catch), and on the mini-app paths only
\* after loadNeynarData has returned or thrown; error is a message exactly
\* when init took the not-in-mini-app path or caught an exception; and once
\* loading is false it never becomes true again.
C16_InitEndsLoading ==
  /\ []( /\ initPc = "done" => ~loading
         /\ ~loading =>
              initPc = "done" /\ (~inMiniApp \/ LoadFinished(loads[1]))
         /\ (error # NullVal) <=>
              (initPc = "done" /\ (~inMiniApp \/ loads[1].pc = "thrown")) )
  /\ [][~loading => ~loading']_vars

\* init has caught the exception of loadNeynarData: the error message is
\* set and loading is false, with the user of the context already set
C16_Witness ==
  /\ initPc = "done"
  /\ loads[1].pc = "thrown"
  /\ error = "Failed to load data from Farcaster Mini App context."
  /\ ~loading
  /\ user # None

\* C17: App renders exactly one of four views with a fixed priority: the
\* loading view when loading is true; otherwise the error view when error is
\* non-null, even if user is set; otherwise "No user data available." when
\* user is null; otherwise the Dashboard.  So the share, download and refresh
\* handlers start only from a rendered Dashboard, with loading false, error
\* null and user non-null.
C17_ViewPriority ==
  /\ []( /\ rendered.view \in {"loading", "error", "nouser", "dashboard"}
         /\ rendered.loading <=> (rendered.view = "loading")
         /\ (~rendered.loading /\ rendered.error # NullVal)
              <=> (rendered.view = "error")
         /\ (~rendered.loading /\ rendered.error = NullVal
                               /\ rendered.user = None)
              <=> (rendered.view = "nouser")
         /\ (~rendered.loading /\ rendered.error = NullVal
                               /\ rendered.user # None)
              <=> (rendered.view = "dashboard") )
  /\ [][ ( \/ \E i \in ShareIds :
               shares[i].pc = "idle" /\ shares'[i].pc # "idle"
           \/ \E i \in DownloadIds :
               downloads[i].pc = "idle" /\ downloads'[i].pc # "idle"
           \/ \E i \in LoadIds :
               i > 1 /\ loads[i].pc = "idle" /\ loads'[i].pc # "idle" )
         => ( /\ rendered.view = "dashboard"
              /\ ~loading /\ error = NullVal /\ user # None ) ]_vars

\* the error view is on screen although user is set
C17_Witness ==
  /\ rendered.view = "error"
  /\ rendered.user # None
  /\ rendered.error # NullVal

\* C18: when a user is already set, the profile update of loadNeynarData
\* leaves fid, username and displayName as they were, and keeps the previous
\* avatarUrl, followersCount, followingCount, bio, location, primaryAddress
\* and neynarScore whenever the response has no value for it (null or
\* undefined; for neynarScore anything but a number); so a refresh adds or
\* replaces profile values and never turns a set value into an absent one.
C18_MergeKeepsProfile ==
  (mergeCall # None /\ mergeCall[1].prev # None) =>
    LET p == mergeCall[1].prev[1]
        u == mergeCall[1].u
        n == mergeCall[1].out[1]
    IN  /\ mergeCall[1].out # None
        /\ n.fid = p.fid
        /\ n.username = p.username
        /\ n.displayName = p.displayName
        /\ u.pfp_url = Undef => n.avatarUrl = p.avatarUrl
        /\ u.follower_count = Null => n.followersCount = p.followersCount
        /\ u.following_count = Null => n.followingCount = p.followingCount
        /\ u.bio = Undef => n.bio = p.bio
        /\ u.country = Undef => n.location = p.location
        /\ (u.primary_eth = Undef /\ u.eth0 = Undef
                                  /\ u.custody_address = Undef)
             => n.primaryAddress = p.primaryAddress
        /\ u.score = Null => n.neynarScore = p.neynarScore
        /\ p.avatarUrl # Undef => n.avatarUrl # Undef
        /\ p.followersCount # Null => n.followersCount # Null
        /\ p.followingCount # Null => n.followingCount # Null
        /\ p.bio # Undef => n.bio # Undef
        /\ p.location # Undef => n.location # Undef
        /\ p.primaryAddress # Undef => n.primaryAddress # Undef
        /\ p.neynarScore # Null => n.neynarScore # Null
        /\ n.castsCount = p.castsCount
        /\ n.reactionsCount = p.reactionsCount

\* a response with a new follower count and without avatar, bio, location,
\* addresses and score, merged into a fully filled user
C18_Witness ==
  /\ mergeCall # None
  /\ mergeCall[1].prev = Some(fullUser)
  /\ mergeCall[1].u.follower_count = 120
  /\ mergeCall[1].u.pfp_url = Undef
  /\ mergeCall[1].u.bio = Undef
  /\ mergeCall[1].u.country = Undef
  /\ mergeCall[1].u.primary_eth = Undef
  /\ mergeCall[1].u.eth0 = Undef
  /\ mergeCall[1].u.custody_address = Undef
  /\ mergeCall[1].u.score = Null
  /\ mergeCall[1].out[1].followersCount = 120
  /\ mergeCall[1].out[1].bio = "old bio"
  /\ mergeCall[1].out[1].primaryAddress = "0xold"

RECURSIVE LikesPlusRecasts(_)
LikesPlusRecasts(cs) ==
  IF cs = <<>> THEN 0
  ELSE cs[1].likes + cs[1].recasts + LikesPlusRecasts(Tail(cs))

CountsOf(u) == IF u = None THEN <<>> ELSE <<u[1].castsCount, u[1].reactionsCount>>

\* C19: the step that handles an ok casts response with user non-null sets
\* reactionsCount to the sum of likes + recasts over exactly the casts it
\* stores in recentCasts, and castsCount to result.total when present, else
\* to the previous castsCount when present, else to the number of casts
\* stored; with user null the update leaves user null; a step of a not-ok
\* casts response leaves castsCount and reactionsCount unchanged.
C19_CountsFromCasts ==
  /\ [](\A body \in CastsBodies : UpdateCounts(None, body) = None)
  /\ [][\A i \in LoadIds :
          /\ (loads[i].pc = "awaitCastsJson" /\ loads'[i].pc = "returned") =>
               /\ recentCasts' # None
               /\ user = None => user' = None
               /\ user # None =>
                    /\ user' # None
                    /\ user'[1].reactionsCount =
                         LikesPlusRecasts(recentCasts'[1])
                    /\ user'[1].castsCount =
                         IF loads'[i].total # Null THEN loads'[i].total
                         ELSE IF user[1].castsCount # Null
                              THEN user[1].castsCount
                              ELSE Len(recentCasts'[1])
          /\ (loads'[i] # loads[i] /\ loads'[i].casts = "notok") =>
               CountsOf(user') = CountsOf(user) ]_vars

\* a refresh stored two casts from a body without total: castsCount is
\* still the total of an earlier response, reactionsCount is the sum over
\* the two casts
C19_Witness ==
  /\ \E i \in LoadIds :
       loads[i].pc = "returned" /\ loads[i].casts = "ok" /\ loads[i].total = 7
  /\ recentCasts # None
  /\ Len(recentCasts[1]) = 2
  /\ user # None
  /\ user[1].castsCount = 7
  /\ user[1].reactionsCount = 4

\* C20: the embeds handleShare passes to composeCast always contain
\* MINIAPP_URL: they are [imageUrl, MINIAPP_URL, "@" + username] when the
\* upload returned a URL and the captured user is set, [imageUrl,
\* MINIAPP_URL] when it returned a URL and user is null, and [MINIAPP_URL]
\* when it returned null or threw or cardRef.current was null.
C20_EmbedsContainMiniApp ==
  /\ \A i \in ShareIds :
       LET s == shares[i]
       IN  s.composes > 0 =>
             /\ \E k \in 1..Len(s.embeds) : s.embeds[k] = MINIAPP_URL
             /\ (s.image = "url" /\ s.user # None) =>
                  s.embeds = <<ImageUrl, MINIAPP_URL,
                               "@" \o s.user[1].username>>
             /\ (s.image = "url" /\ s.user = None) =>
                  s.embeds = <<ImageUrl, MINIAPP_URL>>
             /\ s.image # "url" => s.embeds = <<MINIAPP_URL>>
  /\ ShareEmbeds(Resolved(ImageUrl), None) = <<ImageUrl, MINIAPP_URL>>
  /\ \A r \in {Resolved(NullVal), Rejected} :
       ShareEmbeds(r, None) = <<MINIAPP_URL>>

\* composeCast was called with the uploaded image, the mini app URL and the
\* mention of the user
C20_Witness ==
  \E i \in ShareIds :
    /\ shares[i].composes = 1
    /\ shares[i].image = "url"
    /\ shares[i].embeds = <<ImageUrl, MINIAPP_URL, "@testuser">>

\* C21: after any sequence of stat-card and id-card clicks, once every
\* pending timer has fired the transient click state is cleared (clickedStat
\* is null, isCardClicked is false, floatingElements is empty); and a timer
\* callback never adds a floating element, never sets clickedStat to a name
\* and never sets isCardClicked to true.
C21_TimersClearClickState ==
  /\ []( timers = <<>> =>
           /\ clickedStat = NullVal
           /\ ~isCardClicked
           /\ floatingElements = <<>> )
  /\ [][ lastFired' # lastFired =>
           /\ clickedStat' \in {clickedStat, NullVal}
           /\ isCardClicked' => isCardClicked
           /\ Len(floatingElements') <= Len(floatingElements)
           /\ \A a \in 1..Len(floatingElements') :
                \E b \in 1..Len(floatingElements) :
                  floatingElements'[a] = floatingElements[b] ]_vars

\* stat and id-card clicks were made, two of the stat clicks in the same
\* millisecond, and every timer has fired
C21_Witness ==
  /\ clicks = MaxClicks
  /\ highlightBy > 1
  /\ lastId = 1
  /\ lastFired # None
  /\ timers = <<>>
  /\ floatingElements = <<>>

\* C22: after a click on a stat, clickedStat keeps the name for the full
\* 200 ms of that click's highlight: the 200 ms timer of an earlier click
\* never clears the highlight set by a later click.
C22_OwnTimerClearsHighlight ==
  [][ ( /\ lastFired' # lastFired
        /\ lastFired'[1].kind = "stat"
        /\ clickedStat # NullVal )
      => highlightBy = lastFired'[1].click ]_vars

\* C23: formatAddress returns "Not connected" for a missing or empty
\* address and otherwise the first 6 characters, "...", and the last 4
\* characters of the address; for an address of at least 10 characters the
\* result is 13 characters long and shows no character of the address
\* twice.
C23_FormatAddress ==
  addressCall # None =>
    LET a == addressCall[1].address
        s == a.chars
        n == Len(s)
        out == addressCall[1].out
        first6 == [k \in 1..(IF n < 6 THEN n ELSE 6) |-> s[k]]
        last4 == [k \in 1..(IF n < 4 THEN n ELSE 4) |->
                    s[(IF n < 4 THEN 0 ELSE n - 4) + k]]
    IN  /\ (~a.present \/ n = 0) => out = NotConnected
        /\ (a.present /\ n > 0) => out = first6 \o <<".", ".", ".">> \o last4
        /\ (a.present /\ n >= 10) =>
             /\ Len(out) = 13
             /\ s = DistinctAddress(n) =>
                  \A i, j \in 1..Len(out) :
                    (i # j /\ out[i] = out[j]) => out[i] = "."

\* an address of exactly 10 different characters: all of them are shown
C23_Witness ==
  /\ addressCall # None
  /\ addressCall[1].address = Chars(DistinctAddress(10))
  /\ addressCall[1].out =
       <<"0", "x", "1", "2", "3", "4", ".", ".", ".", "5", "6", "7", "8">>

====
